---- MODULE Spec2Model ----
(***************************************************************************)
(* Ingestion-to-dispatch pipeline of the email alert service:              *)
(*   routers/gmail.py          gmail_webhook (enqueue of Sync jobs)        *)
(*   tasks/gmail_tasks.py      process_gmail_notification (Sync job),      *)
(*                             _process_single_message, poll_gmail_fallback*)
(*   tasks/notification_tasks.py  send_push_for_alert (Notify job)         *)
(*   services/rules_engine.py  evaluate_rule, match_rules                  *)
(*   services/push_service.py  PushService.send                            *)
(*   services/notification_dispatcher.py  NotificationDispatcher.notify    *)
(*   services/ws_manager.py    publish_alert_sync, ConnectionManager       *)
(*   routers/ws.py             ws_alerts                                   *)
(* One account (one user, one OAuthToken row) is modelled.  The provider   *)
(* change log is a sequence of history records 2..head; the record with    *)
(* historyId h adds the message with identifier h.                         *)
(***************************************************************************)
EXTENDS Integers, Sequences, FiniteSets, Bags, TLC

\* ---------------------------------------------------------------- bounds
\* Largest historyId the provider mailbox reaches.
MaxLog == 3
\* Number of Sync job deliveries (webhook deliveries and fallback polls).
MaxJobs == 2
\* Records returned by one history.list page.
PageSize == 1
\* Sync jobs the worker pool executes at the same time.
Workers == 2
\* Exceptions raised in Sync job executions, over all deliveries.
MaxFailures == 1
\* Conditions of a rule given to evaluate_rule.
MaxConds == 3
\* Rules of a list given to match_rules.
MaxRules == 3
\* Message identifiers the rules engine is called with.
MaxMessage == 12
\* WebSockets opened over all API workers.
MaxSessions == 3
\* Envelopes published on the broadcast channel.
MaxEnvelopes == 1

\* ------------------------------------------------------ program constants
\* @shared_task(max_retries=3) of process_gmail_notification.
max_retries == 3
\* @shared_task(retry_backoff_max=300) of process_gmail_notification.
retry_backoff_max == 300

\* last_history_id IS NULL / page_token is None.
None == 0
\* An ORM attribute expired by session.commit() and not reloaded yet.
Expired == -1

Jobs == 1..MaxJobs
HistoryIds == 1..MaxLog

\* ------------------------------------------------------------ rules engine
\* str.lower() on the alphabet of the fixtures.
Lower(c) ==
    CASE c = "B" -> "b" [] c = "U" -> "u" [] c = "R" -> "r" [] c = "G" -> "g"
      [] c = "E" -> "e" [] c = "N" -> "n" [] c = "T" -> "t" [] c = "F" -> "f"
      [] c = "Y" -> "y" [] c = "I" -> "i" [] c = "O" -> "o" [] c = "S" -> "s"
      [] OTHER -> c

LowerStr(s) == [i \in 1..Len(s) |-> Lower(s[i])]

\* Python's `needle in haystack` on strings.
Contains(needle, haystack) ==
    \E i \in 0..(Len(haystack) - Len(needle)) :
        \A k \in 1..Len(needle) : haystack[i + k] = needle[k]

\* time.fromisoformat(value[key]): a missing key is a KeyError and a string
\* that is no ISO time a ValueError, both caught; a value that is not a string
\* is a TypeError, which the except clause does not name.
fromisoformat_try(t) ==
    CASE t.t = "missing" -> "caught"
      [] t.t = "str" -> IF t.iso THEN "ok" ELSE "caught"
      [] t.t = "int" -> "raise"

\* ZoneInfo(tz_name) and astimezone: the offset from UTC, in minutes, of the
\* zones the fixtures name (neither has daylight saving time); any other
\* name is not a key of the zone database.
UnknownZone == 10000
utc_offset(tz_name) ==
    CASE tz_name = "UTC" -> 0
      [] tz_name = "Asia/Tokyo" -> 540
      [] OTHER -> UnknownZone

\* received_at.astimezone(tz).time(): the time of day, in minutes after local
\* midnight, of a timestamp given in minutes of UTC.
local_time(received_at, tz_name) == (received_at + utc_offset(tz_name)) % 1440

\* Variant: the window compared as if it never wrapped past midnight.
in_window_same_day(start, end, msg_time) == start <= msg_time /\ msg_time <= end

\* The comparison of the time_window branch.
in_window(start, end, msg_time) ==
    IF start <= end THEN start <= msg_time /\ msg_time <= end
    ELSE msg_time >= start \/ msg_time <= end

\* The try block of the time_window branch up to the comparison: ZoneInfo
\* (an unknown zone name is a KeyError), then start, then end; the first
\* statement that does not succeed decides.
time_window_try(value) ==
    IF utc_offset(value.timezone) = UnknownZone THEN "caught"
    ELSE IF fromisoformat_try(value.start) # "ok" THEN fromisoformat_try(value.start)
    ELSE fromisoformat_try(value.end)

\* _match_condition: the branches for the condition types the stored rules
\* use; every other type falls to the final else and is False.
match_condition(condition, message) ==
    CASE condition.type = "from_contains" ->
            IF message.from_addr = <<>> THEN FALSE
            ELSE Contains(LowerStr(condition.value), LowerStr(message.from_addr))
      [] condition.type = "subject_contains" ->
            IF message.subject = <<>> THEN FALSE
            ELSE Contains(LowerStr(condition.value), LowerStr(message.subject))
      [] condition.type = "has_attachment" ->
            message.has_attachment = condition.value
      [] condition.type = "body_keywords" ->
            IF condition.value.kind # "list" \/ message.body_text = <<>> THEN FALSE
            ELSE \E i \in 1..Len(condition.value.items) :
                    /\ condition.value.items[i].t = "str"
                    /\ Contains(LowerStr(condition.value.items[i].s), LowerStr(message.body_text))
      [] condition.type = "time_window" ->
            IF condition.value.kind # "dict" \/ message.received_at = None THEN FALSE
            ELSE IF time_window_try(condition.value) # "ok" THEN FALSE
            ELSE in_window(condition.value.start.minutes, condition.value.end.minutes,
                           local_time(message.received_at, condition.value.timezone))
      [] OTHER -> FALSE

\* _match_condition raises instead of returning.  body_keywords: kw.lower()
\* on a keyword that is not a string, reached when no earlier keyword is in
\* the body.  time_window: an exception of the try block that is neither a
\* KeyError nor a ValueError.
match_condition_raises(condition, message) ==
    CASE condition.type = "body_keywords" ->
            /\ condition.value.kind = "list"
            /\ message.body_text # <<>>
            /\ \E i \in 1..Len(condition.value.items) :
                  /\ condition.value.items[i].t # "str"
                  /\ \A k \in 1..(i - 1) :
                        /\ condition.value.items[k].t = "str"
                        /\ ~ Contains(LowerStr(condition.value.items[k].s),
                                      LowerStr(message.body_text))
      [] condition.type = "time_window" ->
            /\ condition.value.kind = "dict"
            /\ message.received_at # None
            /\ time_window_try(condition.value) = "raise"
      [] OTHER -> FALSE

\* A rule_conditions dict without the key "logic".
Absent == "<absent>"

\* str.upper() on the values of "logic" the fixtures use.
upper(s) ==
    CASE s = "or" -> "OR" [] s = "and" -> "AND" [] OTHER -> s

\* rule_conditions.get("logic", "AND").upper()
get_logic(rule_conditions) ==
    IF rule_conditions.logic = Absent THEN "AND" ELSE upper(rule_conditions.logic)

\* Variant: any(results) whatever the logic.
combine_any(logic, results) == \E i \in 1..Len(results) : results[i]

\* `any(results)` for OR, `all(results)` otherwise.
combine(logic, results) ==
    IF logic = "OR" THEN \E i \in 1..Len(results) : results[i]
    ELSE \A i \in 1..Len(results) : results[i]

\* Variant: no early return for an empty condition list.
evaluate_rule_unguarded(rule_conditions, message) ==
    LET conditions == rule_conditions.conditions
        results == [i \in 1..Len(conditions) |-> match_condition(conditions[i], message)]
    IN  combine(get_logic(rule_conditions), results)

\* evaluate_rule: empty condition list is False; OR is any, otherwise all.
evaluate_rule(rule_conditions, message) ==
    LET conditions == rule_conditions.conditions
        results == [i \in 1..Len(conditions) |-> match_condition(conditions[i], message)]
    IN  IF Len(conditions) = 0 THEN FALSE
        ELSE combine(get_logic(rule_conditions), results)

\* Variant: a matching rule is put in front of those matched before it.
RECURSIVE match_rules_prepend(_, _)
match_rules_prepend(rules, message) ==
    IF rules = <<>> THEN <<>>
    ELSE LET rule == rules[Len(rules)]
             matched == match_rules_prepend(SubSeq(rules, 1, Len(rules) - 1), message)
         IN  IF evaluate_rule(rule.conditions, message) THEN <<rule>> \o matched
             ELSE matched

\* match_rules: the loop over rules, appending each rule whose conditions
\* evaluate true.
RECURSIVE match_rules(_, _)
match_rules(rules, message) ==
    IF rules = <<>> THEN <<>>
    ELSE LET rule == rules[Len(rules)]
             matched == match_rules(SubSeq(rules, 1, Len(rules) - 1), message)
         IN  IF evaluate_rule(rule.conditions, message) THEN Append(matched, rule)
             ELSE matched

\* evaluate_rule raises: the list comprehension evaluates every condition, so
\* an exception of any _match_condition call leaves evaluate_rule.
evaluate_rule_raises(rule_conditions, message) ==
    \E i \in 1..Len(rule_conditions.conditions) :
        match_condition_raises(rule_conditions.conditions[i], message)

\* ------------------------------------------------------------------ fixtures
\* The rows of the rules table of the user.
RulesTable ==
    << [id |-> "r1", name |-> "boss or urgent", is_active |-> TRUE,
        conditions |-> [logic |-> "OR", conditions |->
            << [type |-> "from_contains", value |-> <<"b","o","s","s">>],
               [type |-> "subject_contains", value |-> <<"u","r","g","e","n","t">>] >>]],
       [id |-> "r2", name |-> "urgent, no attachment", is_active |-> TRUE,
        conditions |-> [logic |-> "AND", conditions |->
            << [type |-> "subject_contains", value |-> <<"U","r","g","e","n","t">>],
               [type |-> "has_attachment", value |-> FALSE] >>]],
       [id |-> "r3", name |-> "paused", is_active |-> FALSE,
        conditions |-> [logic |-> "AND", conditions |->
            << [type |-> "has_attachment", value |-> FALSE] >>]] >>

\* What messages.get + parse_gmail_message return for message identifier m.
ParsedMessage(m) ==
    [message_id |-> m,
     from_addr |-> IF m % 2 = 0 THEN <<"B","o","s","s","@","c","o">> ELSE <<"x","@","c","o">>,
     subject |-> IF m % 3 = 0 THEN <<"U","R","G","E","N","T">> ELSE <<"F","Y","I">>,
     has_attachment |-> (m % 4 = 0),
     body_text |-> IF m % 2 = 0 THEN <<"s","e","e"," ","m","e">> ELSE <<>>,
     received_at |-> IF m % 2 = 0 THEN 1440 + 600 ELSE None]

\* A time of day as the value of "start" or "end": an ISO string (minutes
\* after midnight), a string that is no ISO time, a number, no such key.
IsoTime(minutes) == [t |-> "str", iso |-> TRUE, minutes |-> minutes]
BadTimeString == [t |-> "str", iso |-> FALSE, minutes |-> None]
TimeAsNumber == [t |-> "int", iso |-> FALSE, minutes |-> None]
NoTimeKey == [t |-> "missing", iso |-> FALSE, minutes |-> None]

\* A rule of one condition, as POST /rules stores it (RuleCondition.value is
\* Any).
ExtraRule(condition) ==
    [id |-> "r4", name |-> "extra", is_active |-> TRUE,
     conditions |-> [logic |-> "AND", conditions |-> <<condition>>]]

\* A rule whose condition list is empty, with the given value of "logic".
EmptyRule(logic) ==
    [id |-> "r4", name |-> "extra", is_active |-> TRUE,
     conditions |-> [logic |-> logic, conditions |-> <<>>]]

\* The extra rules of the exploration of the rule loop: the rules without
\* conditions and a rule that matches the messages without attachment.
LoopRules ==
    {EmptyRule("AND"), EmptyRule("OR"), EmptyRule(Absent),
     ExtraRule([type |-> "has_attachment", value |-> FALSE])}

\* The conditions evaluate_rule is called with, by position.
CondPool ==
    << [type |-> "from_contains", value |-> <<"b","o","s","s">>],
       [type |-> "subject_contains", value |-> <<"u","r","g","e","n","t">>],
       [type |-> "has_attachment", value |-> TRUE],
       [type |-> "has_attachment", value |-> FALSE],
       [type |-> "body_keywords", value |->
           [kind |-> "list", items |-> <<[t |-> "str", s |-> <<"S","e","e">>]>>]] >>

\* The values of "logic" evaluate_rule is called with.
LogicValues == {"AND", "OR", "and", "or", Absent}

\* The condition lists of at most n conditions, as positions of CondPool.
CondLists(n) == UNION {[1..k -> 1..Len(CondPool)] : k \in 0..n}

\* The rule_conditions dict of a logic value and a list of positions.
RuleConditions(logic, conds) ==
    [logic |-> logic, conditions |-> [i \in 1..Len(conds) |-> CondPool[conds[i]]]]

\* The rules match_rules is called with, by position: those of RulesTable,
\* a rule on attachments and a rule without conditions.
RulePool ==
    RulesTable \o << ExtraRule([type |-> "has_attachment", value |-> FALSE]),
                     EmptyRule("AND") >>

\* The rule lists of at most n rules, as positions of RulePool.
RuleLists(n) == UNION {[1..k -> 1..Len(RulePool)] : k \in 0..n}

\* Times of day, in minutes after midnight, of the windows explored, and the
\* timestamps of the messages, in minutes of UTC (day 1 starts at 1440).
WindowTimes == {0, 360, 540, 1020, 1320}
Timestamps == {1440 + t : t \in {0, 300, 360, 361, 720, 1319, 1320, 1380, 1439}}
Zones == {"UTC", "Asia/Tokyo"}

\* The rule_conditions dict of one time_window condition.
TimeWindowRule(start, end, tz_name) ==
    [logic |-> "AND", conditions |->
        << [type |-> "time_window", value |->
               [kind |-> "dict", timezone |-> tz_name,
                start |-> IsoTime(start), end |-> IsoTime(end)]] >>]

\* Rules with a malformed condition: an unknown type; time_window values that
\* are not a dict, have a string that is no time, lack a key, name an unknown
\* zone, or have a number as start; body_keywords values that are a string or
\* a list with a number in it.
MalformedRules ==
    {ExtraRule([type |-> "sender_domain", value |-> [kind |-> "str"]]),
     ExtraRule([type |-> "time_window", value |-> [kind |-> "str"]]),
     ExtraRule([type |-> "time_window", value |->
        [kind |-> "dict", timezone |-> "UTC", start |-> BadTimeString, end |-> IsoTime(1020)]]),
     ExtraRule([type |-> "time_window", value |->
        [kind |-> "dict", timezone |-> "UTC", start |-> IsoTime(540), end |-> NoTimeKey]]),
     ExtraRule([type |-> "time_window", value |->
        [kind |-> "dict", timezone |-> "Mars/Base", start |-> IsoTime(540), end |-> IsoTime(1020)]]),
     ExtraRule([type |-> "time_window", value |->
        [kind |-> "dict", timezone |-> "UTC", start |-> TimeAsNumber, end |-> IsoTime(1020)]]),
     ExtraRule([type |-> "body_keywords", value |-> [kind |-> "str"]]),
     ExtraRule([type |-> "body_keywords", value |->
        [kind |-> "list", items |-> <<[t |-> "int", s |-> <<>>], [t |-> "str", s |-> <<"s","e","e">>]>>]])}

\* -------------------------------------------------------------------- state
VARIABLES
    head,               \* provider: current historyId of the mailbox
    last_history_id,    \* oauth_tokens.last_history_id (committed value)
    processed_messages, \* committed rows of processed_messages (a bag)
    alerts,             \* committed rows of alerts (a bag)
    job,                \* Sync job deliveries (Celery messages and their run)
    notify_queue,       \* the send_push_for_alert.delay(...) calls made (a bag)
    device_tokens,      \* rows of device_tokens of the user
    slack_config,       \* row of slack_configs of the user, or NoSlackConfig
    notify_done,        \* Notify jobs that ran to completion (a bag)
    push_sent,          \* <<notify job, device>>: PushService.send was called
    slack_sent,         \* notify jobs for which SlackService.send was called
    push_failed,        \* <<device, outcome>>: sends of the last Notify job that returned False
    notify_retries,     \* self.retry() calls of the Notify job being executed (a bag)
    notify_failed,      \* Notify jobs that exhausted max_retries (a bag)
    dispatch,           \* the last NotificationDispatcher.notify call and its result
    redis_channel,      \* envelopes published on REDIS_CHANNEL
    app_env,            \* settings.app_env
    http,               \* the last POST /gmail/webhook exchange
    extra_rule,         \* one more row of the rules table of the user, or NoExtraRule
    eval,               \* the last call of the rules engine and what it returned
    connections,        \* ConnectionManager._connections of each API worker
    sockets,            \* the ws_alerts handler of each WebSocket
    pubsub,             \* messages of REDIS_CHANNEL each worker's listener has yet to read
    forward,            \* the _send_to_user call of each worker's listener
    sent_json           \* <<alert, WebSocket>>: send_json calls that returned (a bag)

syncVars == <<head, last_history_id, processed_messages, alerts, job, notify_queue>>
targetVars == <<device_tokens, slack_config>>
notifyVars == <<notify_done, push_sent, slack_sent>>
retryVars == <<push_failed, notify_retries, notify_failed>>
wsVars == <<connections, sockets, pubsub, forward, sent_json>>
liveVars == <<eval, wsVars>>
edgeVars == <<retryVars, dispatch, redis_channel, app_env, http, extra_rule, liveVars>>
vars == <<head, last_history_id, processed_messages, alerts, job, notify_queue,
          device_tokens, slack_config, notify_done, push_sent, slack_sent,
          push_failed, notify_retries, notify_failed, dispatch, redis_channel,
          app_env, http, extra_rule, eval, connections, sockets, pubsub, forward,
          sent_json>>

Running == {"paging", "loop", "inserted"}

NoTxn == [rows |-> EmptyBag, alerts |-> EmptyBag]

\* A Celery message that is not executing: only its arguments and its retry
\* count exist; the locals of a run exist while it runs.
Message(pc, history_id, retries) ==
    [pc |-> pc, history_id |-> history_id, retries |-> retries,
     start_history |-> None, page_token |-> None, all_history |-> {},
     new_message_ids |-> {}, message_id |-> None, loaded |-> Expired,
     txn |-> NoTxn, countdown |-> None]

NoSlackConfig == [exists |-> FALSE, is_enabled |-> FALSE, enabled_notification_types |-> {}]

\* An account with an empty ledger and nothing enqueued: a new one (no
\* cursor), or one whose first notification, historyId 1, has been processed.
InitSync ==
    /\ head = 1
    /\ last_history_id \in {None, 1}
    /\ processed_messages = EmptyBag
    /\ alerts = EmptyBag
    /\ job = [j \in Jobs |-> Message("idle", None, 0)]
    /\ notify_queue = EmptyBag
    /\ notify_done = EmptyBag
    /\ push_sent = {}
    /\ slack_sent = {}

\* No NotificationDispatcher.notify call and no webhook request yet; no rule
\* besides those of RulesTable.
NoDispatch == [called |-> FALSE]
NoExchange == [answered |-> FALSE]
NoExtraRule == [id |-> "none", is_active |-> FALSE]

\* No Notify job has run.
InitRetry ==
    /\ push_failed = {}
    /\ notify_retries = EmptyBag
    /\ notify_failed = EmptyBag

\* No call of the rules engine outside the Sync job.
NoEval == [op |-> "none"]

\* No _send_to_user call in progress.
NoForward == [pc |-> "idle"]

\* API workers that have accepted no WebSocket, their listeners subscribed.
WsWorkers == {"w1", "w2"}
Sessions == 1..MaxSessions

InitWs ==
    /\ connections = [w \in WsWorkers |-> <<>>]
    /\ sockets = [s \in Sessions |-> [state |-> "new", worker |-> "none"]]
    /\ pubsub = [w \in WsWorkers |-> <<>>]
    /\ forward = [w \in WsWorkers |-> NoForward]
    /\ sent_json = EmptyBag

InitLive ==
    /\ eval = NoEval
    /\ InitWs

\* A production deployment that has served no request.
InitEdge ==
    /\ InitRetry
    /\ dispatch = NoDispatch
    /\ redis_channel = {}
    /\ app_env = "production"
    /\ http = NoExchange
    /\ extra_rule = NoExtraRule
    /\ InitLive

\* The Sync engine is explored for a user with one device and no chat webhook.
Init ==
    /\ InitSync
    /\ device_tokens = {[platform |-> "ios", token |-> "t1"]}
    /\ slack_config = NoSlackConfig
    /\ InitEdge

\* ----------------------------------------------------------------- provider
\* A message arrives in the mailbox: history record head+1 adds message head+1.
ProviderAddsMessage ==
    /\ head < MaxLog
    /\ head' = head + 1
    /\ UNCHANGED <<last_history_id, processed_messages, alerts, job, notify_queue, targetVars, notifyVars, edgeVars>>

\* -------------------------------------------------------------- job sources
\* Deliveries are numbered in the order in which they are enqueued.
NextDelivery(j) ==
    /\ job[j].pc = "idle"
    /\ \A k \in Jobs : k < j => job[k].pc # "idle"

\* gmail_webhook, valid payload: process_gmail_notification.delay(email,
\* str(historyId)).  Pub/Sub delivers at least once and in any order, so the
\* historyId is any value the mailbox has had.
gmail_webhook(j, h) ==
    /\ NextDelivery(j)
    /\ h \in 1..head
    /\ job' = [job EXCEPT ![j] = Message("queued", h, 0)]
    /\ UNCHANGED <<head, last_history_id, processed_messages, alerts, notify_queue, targetVars, notifyVars, edgeVars>>

\* poll_gmail_fallback: setup_watch returns the current historyId; a Sync job
\* is enqueued only when the token already has a last_history_id.
poll_gmail_fallback(j) ==
    /\ NextDelivery(j)
    /\ last_history_id # None
    /\ job' = [job EXCEPT ![j] = Message("queued", head, 0)]
    /\ UNCHANGED <<head, last_history_id, processed_messages, alerts, notify_queue, targetVars, notifyVars, edgeVars>>

\* ----------------------------------------------------------------- Sync job
\* rule_dicts: the active rules, in table order; the extra rule, when the
\* user has stored one, is the last row.
ActiveRules == SelectSeq(RulesTable, LAMBDA r : r.is_active)
rule_dicts == IF extra_rule.is_active THEN Append(ActiveRules, extra_rule) ELSE ActiveRules

\* process_gmail_notification up to `start_history = last_history_id or history_id`.
ProcessStart(j) ==
    /\ job[j].pc = "queued"
    /\ Cardinality({k \in Jobs : job[k].pc \in Running}) < Workers
    /\ job' = [job EXCEPT ![j].pc = "paging",
                          ![j].loaded = last_history_id,
                          ![j].start_history =
                              IF last_history_id # None THEN last_history_id
                              ELSE job[j].history_id]
    /\ UNCHANGED <<head, last_history_id, processed_messages, alerts, notify_queue, targetVars, notifyVars, edgeVars>>

\* One iteration of the while loop of GmailService.get_history: one
\* history.list call; after the last page new_message_ids is collected.
GetHistoryPage(j) ==
    /\ job[j].pc = "paging"
    /\ LET pos == IF job[j].page_token = None THEN job[j].start_history
                  ELSE job[j].page_token
           history == {h \in (pos + 1)..head : h <= pos + PageSize}
           nextPageToken == IF head > pos + PageSize THEN pos + PageSize ELSE None
           all == job[j].all_history \cup history
       IN  job' = [job EXCEPT ![j].all_history = all,
                              ![j].page_token = nextPageToken,
                              ![j].start_history =
                                  IF nextPageToken = None THEN None ELSE @,
                              ![j].pc = IF nextPageToken = None THEN "loop" ELSE "paging",
                              ![j].new_message_ids =
                                  IF nextPageToken = None THEN all ELSE {}]
    /\ UNCHANGED <<head, last_history_id, processed_messages, alerts, notify_queue, targetVars, notifyVars, edgeVars>>

\* Number of rows of a table (a bag) that are about message m.
CountRows(table, m) ==
    LET matching == {row \in BagToSet(table) : row.message_id = m}
        sum[S \in SUBSET matching] ==
            IF S = {} THEN 0
            ELSE LET row == CHOOSE r \in S : TRUE
                 IN  CopiesIn(row, table) + sum[S \ {row}]
    IN  sum[matching]

\* Variant: the insert does not wait for the open transaction of another job.
LockedByOtherNoWait(j, m) == FALSE

\* A row for message m that another open transaction has inserted.
LockedByOther(j, m) ==
    \E k \in Jobs \ {j} : \E row \in BagToSet(job[k].txn.rows) : row.message_id = m

\* Variant: a plain INSERT on a table without uq_user_message.
InsertAcceptedNoConstraint(j, m) == TRUE

\* INSERT ... ON CONFLICT DO NOTHING RETURNING id under uq_user_message:
\* TRUE when the insert returns a row.
InsertAccepted(j, m) ==
    ~ \E row \in BagToSet(processed_messages) : row.message_id = m

\* _process_single_message up to session.flush(): get_message (which reloads
\* an expired oauth_token), parse, the idempotent insert.  The insert waits
\* while another transaction holds an uncommitted row with the same key.
ProcessInsert(j, m) ==
    /\ job[j].pc = "loop"
    /\ m \in job[j].new_message_ids
    /\ ~ LockedByOther(j, m)
    /\ LET reloaded == IF job[j].loaded = Expired THEN last_history_id
                       ELSE job[j].loaded
       IN  IF InsertAccepted(j, m)
           THEN job' = [job EXCEPT ![j].pc = "inserted",
                                   ![j].message_id = m,
                                   ![j].loaded = reloaded,
                                   ![j].txn.rows = SetToBag({[message_id |-> m, id |-> j]})]
           ELSE job' = [job EXCEPT ![j].loaded = reloaded,
                                   ![j].new_message_ids = @ \ {m}]
    /\ UNCHANGED <<head, last_history_id, processed_messages, alerts, notify_queue, targetVars, notifyVars, edgeVars>>

\* The rule_dicts, among the first k, that match message m.
Matched(m, k) ==
    {i \in 1..k : evaluate_rule(rule_dicts[i].conditions, ParsedMessage(m))}

\* The first k iterations of `for rule_dict in rule_dicts`: the Alerts added
\* to the session.
AlertsAdded(j, m, k) ==
    SetToBag({[message_id |-> m, rule_id |-> rule_dicts[i].id, id |-> j] : i \in Matched(m, k)})

\* The first k iterations: the send_push_for_alert.delay calls.
Enqueued(m, k) ==
    SetToBag({[message_id |-> m, rule_id |-> rule_dicts[i].id] : i \in Matched(m, k)})

\* Variant: the cursor assignment made before the message loop, so that the
\* commit of a message also commits it.
MatchAndCommitWithCursor(j) ==
    /\ job[j].pc = "inserted"
    /\ LET m == job[j].message_id
           n == Len(rule_dicts)
       IN  /\ notify_queue' = notify_queue (+) Enqueued(m, n)
           /\ processed_messages' = processed_messages (+) job[j].txn.rows
           /\ alerts' = alerts (+) AlertsAdded(j, m, n)
           /\ last_history_id' = job[j].history_id
           /\ job' = [job EXCEPT ![j].pc = "loop",
                                 ![j].txn = NoTxn,
                                 ![j].message_id = None,
                                 ![j].loaded = Expired,
                                 ![j].new_message_ids = @ \ {m}]
    /\ UNCHANGED <<head, targetVars, notifyVars, edgeVars>>

\* The rest of _process_single_message after an accepted insert: the rule
\* loop (Alert, flush, delay per match) and session.commit().
MatchAndCommit(j) ==
    /\ job[j].pc = "inserted"
    /\ LET m == job[j].message_id
           n == Len(rule_dicts)
       IN  /\ notify_queue' = notify_queue (+) Enqueued(m, n)
           /\ processed_messages' = processed_messages (+) job[j].txn.rows
           /\ alerts' = alerts (+) AlertsAdded(j, m, n)
           /\ job' = [job EXCEPT ![j].pc = "loop",
                                 ![j].txn = NoTxn,
                                 ![j].message_id = None,
                                 ![j].loaded = Expired,
                                 ![j].new_message_ids = @ \ {m}]
    /\ UNCHANGED <<head, last_history_id, targetVars, notifyVars, edgeVars>>

\* Variant: the cursor written without waiting for the end of the message loop.
UpdateLastHistoryIdEarly(j) ==
    /\ job[j].pc = "loop"
    /\ last_history_id' = IF job[j].loaded = job[j].history_id THEN last_history_id
                          ELSE job[j].history_id
    /\ job' = [job EXCEPT ![j] = Message("done", job[j].history_id, job[j].retries)]
    /\ UNCHANGED <<head, processed_messages, alerts, notify_queue, targetVars, notifyVars, edgeVars>>

\* Variant: the cursor written only when it advances the stored one.
UpdateLastHistoryIdIfLater(j) ==
    /\ job[j].pc = "loop"
    /\ job[j].new_message_ids = {}
    /\ last_history_id' = IF job[j].history_id > last_history_id THEN job[j].history_id
                          ELSE last_history_id
    /\ job' = [job EXCEPT ![j] = Message("done", job[j].history_id, job[j].retries)]
    /\ UNCHANGED <<head, processed_messages, alerts, notify_queue, targetVars, notifyVars, edgeVars>>

\* `oauth_token.last_history_id = history_id; session.commit()`.  The unit of
\* work emits no UPDATE when the loaded attribute already has that value.
UpdateLastHistoryId(j) ==
    /\ job[j].pc = "loop"
    /\ job[j].new_message_ids = {}
    /\ last_history_id' = IF job[j].loaded = job[j].history_id THEN last_history_id
                          ELSE job[j].history_id
    /\ job' = [job EXCEPT ![j] = Message("done", job[j].history_id, job[j].retries)]
    /\ UNCHANGED <<head, processed_messages, alerts, notify_queue, targetVars, notifyVars, edgeVars>>

\* Exceptions raised so far: every one of them consumed a retry or failed
\* its task for good.
RECURSIVE SumRetries(_)
SumRetries(S) ==
    IF S = {} THEN 0
    ELSE LET j == CHOOSE x \in S : TRUE
         IN  job[j].retries + (IF job[j].pc = "failed" THEN 1 ELSE 0) + SumRetries(S \ {j})

Failures == SumRetries(Jobs)

\* The countdown of self.retry() under retry_backoff=True: 2^retries seconds,
\* at most retry_backoff_max (the jitter draws a delay up to that value).
Backoff(retries) ==
    IF 2 ^ retries < retry_backoff_max THEN 2 ^ retries ELSE retry_backoff_max

\* Variant: the task is enqueued again without counting the retry.
RaisesRetryForever(j, k) ==
    /\ job[j].pc \in Running
    /\ k \in 0..(IF job[j].pc = "inserted" THEN Len(rule_dicts) ELSE 0)
    /\ notify_queue' = IF job[j].pc = "inserted"
                       THEN notify_queue (+) Enqueued(job[j].message_id, k)
                       ELSE notify_queue
    /\ job' = [job EXCEPT ![j] = Message("queued", job[j].history_id, job[j].retries)]
    /\ UNCHANGED <<head, last_history_id, processed_messages, alerts, targetVars, notifyVars, edgeVars>>

\* `except Exception: session.rollback(); raise` and autoretry_for.  A
\* provider call, the insert or the last commit raised (k = 0), or, after an
\* accepted insert, a flush, a delay or the commit raised when k iterations
\* of the rule loop had made their delay call.  Celery enqueues the task
\* again with retries + 1 and the backoff countdown, or, with max_retries
\* exhausted, lets the exception mark the task as failed.
Raises(j, k) ==
    /\ job[j].pc \in Running
    /\ k \in 0..(IF job[j].pc = "inserted" THEN Len(rule_dicts) ELSE 0)
    /\ notify_queue' = IF job[j].pc = "inserted"
                       THEN notify_queue (+) Enqueued(job[j].message_id, k)
                       ELSE notify_queue
    /\ job' = [job EXCEPT ![j] =
                  IF job[j].retries < max_retries
                  THEN [Message("queued", job[j].history_id, job[j].retries + 1)
                           EXCEPT !.countdown = Backoff(job[j].retries)]
                  ELSE Message("failed", job[j].history_id, job[j].retries)]
    /\ UNCHANGED <<head, last_history_id, processed_messages, alerts, targetVars, notifyVars, edgeVars>>

\* An execution raises, within the bound on the exceptions explored.
TaskFail(j, k) ==
    /\ Failures < MaxFailures
    /\ Raises(j, k)

\* The rule loop of _process_single_message with the extra rule stored after
\* those of RulesTable: evaluate_rule is called in the loop without a handler,
\* so an exception of the extra rule's evaluation, raised after the
\* iterations of the rules before it, leaves the task as any other exception
\* does.
MatchStoredRules(j) ==
    /\ job[j].pc = "inserted"
    /\ IF /\ extra_rule.is_active
          /\ evaluate_rule_raises(extra_rule.conditions, ParsedMessage(job[j].message_id))
       THEN Raises(j, Len(rule_dicts) - 1)
       ELSE MatchAndCommit(j)

\* ------------------------------------------------- calls of the rules engine
\* The arguments of a call of the rules engine that has not returned yet.
EvaluateRuleArgs ==
    \E logic \in LogicValues, conds \in CondLists(MaxConds), m \in 1..MaxMessage :
        eval = [op |-> "evaluate_rule", pc |-> "called", logic |-> logic, conds |-> conds,
                message |-> m]

TimeWindowArgs ==
    \E start \in WindowTimes, end \in WindowTimes, tz_name \in Zones, t \in Timestamps :
        eval = [op |-> "time_window", pc |-> "called", start |-> start, end |-> end,
                timezone |-> tz_name, received_at |-> t]

MatchRulesArgs ==
    \E rules \in RuleLists(MaxRules), m \in 1..MaxMessage :
        eval = [op |-> "match_rules", pc |-> "called", rules |-> rules, message |-> m]

\* evaluate_rule(rule_conditions, message)
EvaluateRuleCall ==
    /\ eval.op = "evaluate_rule" /\ eval.pc = "called"
    /\ eval' = [op |-> "evaluate_rule", pc |-> "returned", logic |-> eval.logic,
                conds |-> eval.conds, message |-> eval.message,
                result |-> evaluate_rule(RuleConditions(eval.logic, eval.conds),
                                         ParsedMessage(eval.message))]
    /\ UNCHANGED <<syncVars, targetVars, notifyVars, retryVars, dispatch, redis_channel,
                   app_env, http, extra_rule, wsVars>>

\* evaluate_rule on one time_window condition and a message received at
\* received_at.
TimeWindowCall ==
    /\ eval.op = "time_window" /\ eval.pc = "called"
    /\ eval' = [op |-> "time_window", pc |-> "returned", start |-> eval.start,
                end |-> eval.end, timezone |-> eval.timezone,
                received_at |-> eval.received_at,
                result |-> evaluate_rule(
                              TimeWindowRule(eval.start, eval.end, eval.timezone),
                              [ParsedMessage(2) EXCEPT !.received_at = eval.received_at])]
    /\ UNCHANGED <<syncVars, targetVars, notifyVars, retryVars, dispatch, redis_channel,
                   app_env, http, extra_rule, wsVars>>

\* match_rules(rules, message)
MatchRulesCall ==
    /\ eval.op = "match_rules" /\ eval.pc = "called"
    /\ eval' = [op |-> "match_rules", pc |-> "returned", rules |-> eval.rules,
                message |-> eval.message,
                matched |-> match_rules([i \in 1..Len(eval.rules) |-> RulePool[eval.rules[i]]],
                                        ParsedMessage(eval.message))]
    /\ UNCHANGED <<syncVars, targetVars, notifyVars, retryVars, dispatch, redis_channel,
                   app_env, http, extra_rule, wsVars>>

\* ---------------------------------------------------------------- Notify job
\* NotificationType.RULE_MATCH.value
RULE_MATCH == "RULE_MATCH"

\* @shared_task(max_retries=3) of send_push_for_alert.
notify_max_retries == 3

\* What a Python call that returns a bool did: returned True, returned False,
\* or raised.
PyTrue == "True"
PyFalse == "False"
PyRaise == "raise"

\* What a platform integration does with one request: it delivers, it answers
\* with an error, its call raises (timeout, outage), or the deployment has no
\* credentials for it.
PushOutcomes == {"delivered", "rejected", "raises", "unconfigured"}

\* PushService.send_fcm: no app is False; messaging.send raises on every
\* failure and the except clause returns False.
send_fcm(outcome) ==
    CASE outcome = "unconfigured" -> PyFalse
      [] outcome = "delivered" -> PyTrue
      [] outcome = "rejected" -> PyFalse
      [] outcome = "raises" -> PyFalse

\* Variant: send_apns without its try/except.
send_apns_unguarded(outcome) ==
    CASE outcome = "unconfigured" -> PyFalse
      [] outcome = "delivered" -> PyTrue
      [] outcome = "rejected" -> PyFalse
      [] outcome = "raises" -> PyRaise

\* PushService.send_apns: no key path is False; response.is_successful is
\* True or False; the except clause returns False.
send_apns(outcome) ==
    CASE outcome = "unconfigured" -> PyFalse
      [] outcome = "delivered" -> PyTrue
      [] outcome = "rejected" -> PyFalse
      [] outcome = "raises" -> PyFalse

\* PushService.send: the platform string selects the integration.
send(platform, outcome) ==
    IF platform = "android" THEN send_fcm(outcome)
    ELSE IF platform = "ios" THEN send_apns(outcome)
    ELSE PyFalse

\* A bag of k copies of n.
Copies(n, k) == IF k = 0 THEN EmptyBag ELSE [x \in {n} |-> k]

\* A send_push_for_alert.delay call that has neither completed nor failed
\* for good.
Unfinished(n) ==
    CopiesIn(n, notify_done) + CopiesIn(n, notify_failed) < CopiesIn(n, notify_queue)

\* `except Exception: session.rollback(); raise` of send_push_for_alert under
\* autoretry_for=(Exception,): self.retry() until max_retries is exhausted.
NotifyRaises(n) ==
    /\ IF CopiesIn(n, notify_retries) < notify_max_retries
       THEN /\ notify_retries' = notify_retries (+) Copies(n, 1)
            /\ notify_failed' = notify_failed
       ELSE /\ notify_retries' = notify_retries (-) Copies(n, CopiesIn(n, notify_retries))
            /\ notify_failed' = notify_failed (+) Copies(n, 1)
    /\ UNCHANGED <<notify_done, push_sent, push_failed>>

\* send_push_for_alert: the device tokens of the user are read; with none the
\* task returns; otherwise PushService.send is called once per device, its
\* bool only decides whether device.last_used is set, and the session is
\* committed.  The task makes no other delivery call.  An exception that
\* leaves a send call reaches the except clause of the task.
send_push_for_alert(n) ==
    /\ Unfinished(n)
    /\ \E outcome \in [device_tokens -> PushOutcomes] :
          LET success == [device \in device_tokens |-> send(device.platform, outcome[device])]
          IN  IF \E device \in device_tokens : success[device] = PyRaise
              THEN NotifyRaises(n)
              ELSE /\ push_sent' = push_sent \cup {<<n, device>> : device \in device_tokens}
                   /\ push_failed' = {<<device, outcome[device]>> : device \in
                                          {d \in device_tokens : success[d] = PyFalse}}
                   /\ notify_done' = notify_done (+) Copies(n, 1)
                   /\ notify_retries' = notify_retries (-) Copies(n, CopiesIn(n, notify_retries))
                   /\ notify_failed' = notify_failed
    /\ UNCHANGED <<syncVars, targetVars, slack_sent, dispatch, redis_channel, app_env, http, extra_rule, liveVars>>

\* The session of send_push_for_alert raises (the device query or the
\* commit): rollback, re-raise, autoretry.
NotifyFail(n) ==
    /\ Unfinished(n)
    /\ NotifyRaises(n)
    /\ UNCHANGED <<syncVars, targetVars, slack_sent, dispatch, redis_channel, app_env, http, extra_rule, liveVars>>

\* ---------------------------------------------------------------- dispatcher
\* class NotificationType
NotificationTypes == {"RULE_MATCH", "EVENT_PROPOSAL", "SYSTEM"}

\* CryptoService.decrypt of the stored webhook_url: the plaintext, or the box
\* raises.
DecryptOutcomes == {"plaintext", "raises"}

\* What the POST to the chat endpoint does: a status code, a timeout, or
\* another exception of the HTTP client.
SlackOutcomes == {"200", "500", "timeout", "raises"}

\* SlackService.send: True on status 200, False on any other status and on
\* every exception of the POST.
slack_send(endpoint) ==
    CASE endpoint = "200" -> PyTrue
      [] endpoint = "500" -> PyFalse
      [] endpoint = "timeout" -> PyFalse
      [] endpoint = "raises" -> PyFalse

\* Variant: decrypt and send without the try/except of notify.
notify_slack_unguarded(decrypt, endpoint) ==
    IF decrypt = "raises" THEN PyRaise ELSE slack_send(endpoint)

\* notify, the try block: decrypt, then SlackService.send; `except Exception`
\* sets result["slack_sent"] = False.
notify_slack(decrypt, endpoint) ==
    IF decrypt = "raises" THEN PyFalse
    ELSE IF slack_send(endpoint) = PyRaise THEN PyFalse
    ELSE slack_send(endpoint)

\* `slack_config and slack_config.is_enabled` and type_allowed.
ChatWebhookAppliesTo(cfg, notification_type) ==
    /\ cfg.exists /\ cfg.is_enabled
    /\ \/ cfg.enabled_notification_types = {}
       \/ notification_type \in cfg.enabled_notification_types

\* The rows of a device query, in the order the database returns them.
RECURSIVE DeviceSeq(_)
DeviceSeq(devices) ==
    IF devices = {} THEN <<>>
    ELSE LET device == CHOOSE d \in devices : TRUE
         IN  Append(DeviceSeq(devices \ {device}), device)

\* Variant: the loop is left at the first send that returns False.
RECURSIVE push_loop_break(_, _)
push_loop_break(devices, outcome) ==
    IF devices = <<>>
    THEN [push_sent |-> 0, push_failed |-> 0, attempted |-> EmptyBag, raised |-> FALSE]
    ELSE LET before == push_loop_break(SubSeq(devices, 1, Len(devices) - 1), outcome)
             device == devices[Len(devices)]
             success == send(device.platform, outcome[device])
         IN  IF before.raised \/ before.push_failed > 0 THEN before
             ELSE [push_sent |-> before.push_sent + (IF success = PyTrue THEN 1 ELSE 0),
                   push_failed |-> before.push_failed + (IF success = PyFalse THEN 1 ELSE 0),
                   attempted |-> before.attempted (+) Copies(device, 1),
                   raised |-> success = PyRaise]

\* `for device in devices`: one PushService.send call per row, counted in
\* push_sent or push_failed; an exception that leaves send leaves the loop.
RECURSIVE push_loop(_, _)
push_loop(devices, outcome) ==
    IF devices = <<>>
    THEN [push_sent |-> 0, push_failed |-> 0, attempted |-> EmptyBag, raised |-> FALSE]
    ELSE LET before == push_loop(SubSeq(devices, 1, Len(devices) - 1), outcome)
             device == devices[Len(devices)]
             success == send(device.platform, outcome[device])
         IN  IF before.raised THEN before
             ELSE [push_sent |-> before.push_sent + (IF success = PyTrue THEN 1 ELSE 0),
                   push_failed |-> before.push_failed + (IF success = PyFalse THEN 1 ELSE 0),
                   attempted |-> before.attempted (+) Copies(device, 1),
                   raised |-> success = PyRaise]

\* NotificationDispatcher.notify: the push loop (an exception that leaves
\* PushService.send leaves notify), then the chat webhook.  `returned` is
\* FALSE when the call raised instead of returning its result.
notify(devices, outcome, cfg, notification_type, decrypt, endpoint) ==
    LET loop == push_loop(DeviceSeq(devices), outcome)
        attempt == ChatWebhookAppliesTo(cfg, notification_type)
        chat == IF attempt THEN notify_slack(decrypt, endpoint) ELSE "None"
    IN  IF loop.raised
        THEN [returned |-> FALSE, push_sent |-> 0, push_failed |-> 0,
              slack_sent |-> "None", slack_attempted |-> FALSE,
              attempted |-> loop.attempted]
        ELSE IF chat = PyRaise
        THEN [returned |-> FALSE, push_sent |-> loop.push_sent,
              push_failed |-> loop.push_failed,
              slack_sent |-> "None", slack_attempted |-> TRUE,
              attempted |-> loop.attempted]
        ELSE [returned |-> TRUE, push_sent |-> loop.push_sent,
              push_failed |-> loop.push_failed,
              slack_sent |-> chat, slack_attempted |-> attempt,
              attempted |-> loop.attempted]

\* One call of NotificationDispatcher.notify for the user, with what the
\* integrations do during the call.
NotifyCall ==
    /\ \E notification_type \in NotificationTypes,
          outcome \in [device_tokens -> PushOutcomes],
          decrypt \in DecryptOutcomes, endpoint \in SlackOutcomes :
          dispatch' = [called |-> TRUE, notification_type |-> notification_type,
                       outcome |-> outcome, decrypt |-> decrypt, endpoint |-> endpoint,
                       result |-> notify(device_tokens, outcome, slack_config,
                                         notification_type, decrypt, endpoint)]
    /\ UNCHANGED <<syncVars, targetVars, notifyVars, retryVars, redis_channel, app_env, http, extra_rule, liveVars>>

\* The type tags a chat allow-list may hold (SlackConfigUpdate's validator)
\* and producers give to their events.
EventTags == {"RULE_MATCH", "FOLLOW_UP", "DIGEST", "MEETING_PREP", "EVENT_PROPOSAL", "SYSTEM"}

\* The attribute access NotificationType.<tag>: the member, or an
\* AttributeError for a name the enum does not define.
NotificationType(tag) == IF tag \in NotificationTypes THEN tag ELSE PyRaise

\* A producer dispatches an event of a type tag: the argument
\* NotificationType.<tag> is evaluated, then notify is called.  When the
\* attribute access raises, notify is never entered.
NotifyEvent ==
    /\ \E tag \in EventTags,
          outcome \in [device_tokens -> PushOutcomes],
          decrypt \in DecryptOutcomes, endpoint \in SlackOutcomes :
          dispatch' = [called |-> TRUE, notification_type |-> tag,
                       outcome |-> outcome, decrypt |-> decrypt, endpoint |-> endpoint,
                       result |->
                           IF NotificationType(tag) = PyRaise
                           THEN [returned |-> FALSE, push_sent |-> 0, push_failed |-> 0,
                                 slack_sent |-> "None", slack_attempted |-> FALSE,
                                 attempted |-> EmptyBag]
                           ELSE notify(device_tokens, outcome, slack_config,
                                       NotificationType(tag), decrypt, endpoint)]
    /\ UNCHANGED <<syncVars, targetVars, notifyVars, retryVars, redis_channel, app_env, http, extra_rule, liveVars>>

\* ------------------------------------------------------- real-time fan-out
\* publish_alert_sync: the envelope {user_id, payload} is published on
\* REDIS_CHANNEL.  No task of the pipeline calls it.
publish_alert_sync(user_id, payload) ==
    redis_channel' = redis_channel \cup {[user_id |-> user_id, payload |-> payload]}

\* The user a WebSocket authenticates as (the `sub` of its token) and the
\* worker the load balancer hands it to: the third WebSocket belongs to a
\* second user, the fourth and later ones are served by the second worker.
Users == {"u1", "u2"}
UserOf(ws) == IF ws = 3 THEN "u2" ELSE "u1"
WorkerOf(ws) == IF ws >= 4 THEN "w2" ELSE "w1"

\* self._connections.get(user_id, []) on the table of one worker.
ws_list_of(conns, user_id) ==
    IF user_id \in DOMAIN conns THEN conns[user_id] ELSE <<>>

\* list.remove(ws): the list without its first occurrence of ws.
Remove(ws_list, ws) ==
    LET first == CHOOSE i \in 1..Len(ws_list) : ws_list[i] = ws /\ \A k \in 1..(i - 1) : ws_list[k] # ws
    IN  SubSeq(ws_list, 1, first - 1) \o SubSeq(ws_list, first + 1, Len(ws_list))

InList(ws_list, ws) == \E i \in 1..Len(ws_list) : ws_list[i] = ws

\* Variant: disconnect that leaves the key of a user whose list got empty.
disconnect_keep_key(conns, user_id, ws) ==
    IF user_id \notin DOMAIN conns THEN conns
    ELSE IF InList(conns[user_id], ws) THEN [conns EXCEPT ![user_id] = Remove(@, ws)]
    ELSE conns

\* ConnectionManager.disconnect on the table of one worker: ws is removed
\* from the list of the user when it is in it, and the key of the user is
\* popped when the list is empty.
disconnect(conns, user_id, ws) ==
    LET ws_list == ws_list_of(conns, user_id)
        after == IF InList(ws_list, ws) THEN Remove(ws_list, ws) ELSE ws_list
    IN  IF after = <<>> THEN [u \in DOMAIN conns \ {user_id} |-> conns[u]]
        ELSE [conns EXCEPT ![user_id] = after]

\* `for ws in dead: self.disconnect(user_id, ws)`
RECURSIVE prune(_, _, _)
prune(conns, user_id, dead) ==
    IF dead = <<>> THEN conns
    ELSE prune(disconnect(conns, user_id, dead[1]), user_id, SubSeq(dead, 2, Len(dead)))

\* ws_alerts up to the receive loop: the token is valid, ws.accept(), and
\* ConnectionManager.connect appends the WebSocket to the list of its user on
\* the worker that serves it.  A list created here is not the list object a
\* _send_to_user call in progress iterates.
Connect(ws, w) ==
    /\ sockets[ws].state = "new"
    /\ sockets' = [sockets EXCEPT ![ws] = [state |-> "open", worker |-> w]]
    /\ connections' = [connections EXCEPT ![w] =
            [u \in DOMAIN @ \cup {UserOf(ws)} |->
                IF u = UserOf(ws) THEN Append(ws_list_of(@, u), ws) ELSE @[u]]]
    /\ UNCHANGED <<syncVars, targetVars, notifyVars, retryVars, dispatch, redis_channel,
                   app_env, http, extra_rule, eval, pubsub, forward, sent_json>>

\* Variant: the call looks up the list of the other user.
IteratedOtherUser(w) ==
    IF forward[w].detached THEN <<>>
    ELSE ws_list_of(connections[w], IF forward[w].user_id = "u1" THEN "u2" ELSE "u1")

\* The list object the _send_to_user call of worker w iterates: the list of
\* the user in the table, or, once the key of the user was popped (or when
\* there was none at the start), an empty list of its own.
Iterated(w) ==
    IF forward[w].detached THEN <<>>
    ELSE ws_list_of(connections[w], forward[w].user_id)

\* The receive loop of ws_alerts ends (the client went away): the finally
\* clause calls ConnectionManager.disconnect.  It runs between two awaited
\* sends of a _send_to_user call of the same worker; the position of the
\* loop of that call is not adjusted.
Disconnect(ws) ==
    /\ sockets[ws].state = "open"
    /\ LET w == sockets[ws].worker
           user_id == UserOf(ws)
           after == disconnect(connections[w], user_id, ws)
           iterating == forward[w].pc = "sending" /\ forward[w].user_id = user_id
       IN  /\ connections' = [connections EXCEPT ![w] = after]
           /\ forward' = IF iterating
                         THEN [forward EXCEPT
                                 ![w].detached = @ \/ user_id \notin DOMAIN after,
                                 ![w].removed = @ \/ InList(Iterated(w), ws)]
                         ELSE forward
    /\ sockets' = [sockets EXCEPT ![ws].state = "closed"]
    /\ UNCHANGED <<syncVars, targetVars, notifyVars, retryVars, dispatch, redis_channel,
                   app_env, http, extra_rule, eval, pubsub, sent_json>>

\* A task publishes an alert for a user: every worker's listener is
\* subscribed to REDIS_CHANNEL and is handed the envelope once.
Publish(user_id) ==
    /\ Cardinality(redis_channel) < MaxEnvelopes
    /\ LET payload == [alert_id |-> Cardinality(redis_channel) + 1]
       IN  /\ publish_alert_sync(user_id, payload)
           /\ pubsub' = [w \in WsWorkers |->
                            Append(pubsub[w], [user_id |-> user_id, payload |-> payload])]
    /\ UNCHANGED <<syncVars, targetVars, notifyVars, retryVars, dispatch, app_env, http,
                   extra_rule, eval, connections, sockets, forward, sent_json>>

\* _listen reads the next message and calls _send_to_user, which looks up
\* the list of the target user.  start is the list at that moment;
\* attempted, removed and start are kept for the properties only.
Listen(w) ==
    /\ forward[w].pc # "sending"
    /\ pubsub[w] # <<>>
    /\ LET data == Head(pubsub[w])
       IN  forward' = [forward EXCEPT ![w] =
               [pc |-> "sending", user_id |-> data.user_id, payload |-> data.payload,
                index |-> 0, dead |-> <<>>,
                detached |-> data.user_id \notin DOMAIN connections[w],
                start |-> ws_list_of(connections[w], data.user_id),
                attempted |-> <<>>, removed |-> FALSE]]
    /\ pubsub' = [pubsub EXCEPT ![w] = Tail(@)]
    /\ UNCHANGED <<syncVars, targetVars, notifyVars, retryVars, dispatch, redis_channel,
                   app_env, http, extra_rule, eval, connections, sockets, sent_json>>

\* One iteration of `for ws in ws_list`: the list iterator yields the item
\* at its position and advances, and send_json is awaited; it returns (ok)
\* or raises, in which case ws is appended to dead.
SendJson(w, ok) ==
    /\ forward[w].pc = "sending"
    /\ forward[w].index < Len(Iterated(w))
    /\ LET ws == Iterated(w)[forward[w].index + 1]
       IN  /\ forward' = [forward EXCEPT
                   ![w].index = @ + 1,
                   ![w].attempted = Append(@, ws),
                   ![w].dead = IF ok THEN @ ELSE Append(@, ws)]
           /\ sent_json' = IF ok
                           THEN sent_json (+) Copies(<<forward[w].payload.alert_id, ws>>, 1)
                           ELSE sent_json
    /\ UNCHANGED <<syncVars, targetVars, notifyVars, retryVars, dispatch, redis_channel,
                   app_env, http, extra_rule, eval, connections, sockets, pubsub>>

\* The iterator is exhausted: the dead WebSockets are disconnected and
\* _send_to_user returns.
ForwardReturns(w) ==
    /\ forward[w].pc = "sending"
    /\ forward[w].index >= Len(Iterated(w))
    /\ connections' = [connections EXCEPT ![w] = prune(@, forward[w].user_id, forward[w].dead)]
    /\ forward' = [forward EXCEPT ![w].pc = "done"]
    /\ UNCHANGED <<syncVars, targetVars, notifyVars, retryVars, dispatch, redis_channel,
                   app_env, http, extra_rule, eval, sockets, pubsub, sent_json>>

\* ------------------------------------------------------------ webhook receiver
\* Settings.app_env.  The receiver compares it with "production" only, so
\* "staging" takes the branches of "development".
AppEnvs == {"development", "production"}

\* The Authorization header of a request: none (or not a Bearer), the
\* configured verification token, a JWT signed by Google for a service
\* account, a JWT that fails verification.
AuthHeaders == {"absent", "verification_token", "google_jwt", "forged_jwt"}

\* _verify_pubsub_token: TRUE when it returns a dict, FALSE when None.
verify_pubsub_token(auth) ==
    CASE auth = "absent" -> FALSE
      [] auth = "verification_token" -> TRUE
      [] auth = "google_jwt" -> TRUE
      [] auth = "forged_jwt" -> FALSE

NA == "n/a"

\* The values of data.get("emailAddress") and data.get("historyId").
EmailKinds == {"absent", "empty", "str", "int"}
HistoryIdKinds == {"absent", "zero", "int", "str"}

\* Request bodies.  body: what request.json() finds (not JSON, a JSON array,
\* a JSON object); message: the "message" member (absent, not an object, an
\* object); data: the "data" member (absent, empty, not base64, base64 of
\* bytes that are not JSON, base64 of a JSON array / null / object); then the
\* two members of the decoded object; h is the historyId when there is one.
Payloads ==
    {[body |-> b, message |-> NA, data |-> NA, emailAddress |-> NA, historyId |-> NA, h |-> None]
        : b \in {"not_json", "array"}}
    \cup {[body |-> "object", message |-> m, data |-> NA, emailAddress |-> NA,
            historyId |-> NA, h |-> None] : m \in {"absent", "not_object"}}
    \cup {[body |-> "object", message |-> "object", data |-> d, emailAddress |-> NA,
            historyId |-> NA, h |-> None]
            : d \in {"absent", "empty", "not_base64", "not_json", "array", "null"}}
    \cup {[body |-> "object", message |-> "object", data |-> "object", emailAddress |-> e,
            historyId |-> k, h |-> None] : e \in EmailKinds, k \in {"absent", "zero"}}
    \cup {[body |-> "object", message |-> "object", data |-> "object", emailAddress |-> e,
            historyId |-> k, h |-> 1] : e \in {"absent", "empty", "int"}, k \in {"int", "str"}}
    \cup {[body |-> "object", message |-> "object", data |-> "object", emailAddress |-> "str",
            historyId |-> k, h |-> h] : k \in {"int", "str"}, h \in HistoryIds}

Requests == [auth : AuthHeaders, payload : Payloads]

\* Variant: an unverified request is only logged, in every environment.
verification_rejects_never(auth, env) == FALSE

\* Lines 83-90: HTTPException(403) for an unverified request in production.
verification_rejects(auth, env) ==
    ~ verify_pubsub_token(auth) /\ env = "production"

\* An exception leaves the handler (the framework answers 500): request.json()
\* raises, .get is called on a value that is not a dict (body, message, the
\* decoded data), or email_address[:3] + "***" is evaluated on a non-string.
handler_raises(payload) ==
    \/ payload.body \in {"not_json", "array"}
    \/ payload.message = "not_object"
    \/ payload.data \in {"array", "null"}
    \/ /\ payload.data = "object"
       /\ payload.emailAddress = "int"
       /\ payload.historyId \in {"int", "str"}

\* `if not data_b64`
empty_message(payload) ==
    payload.message = "absent" \/ payload.data \in {"absent", "empty"}

\* The except clause around json.loads(base64.b64decode(data_b64)).
invalid_data(payload) == payload.data \in {"not_base64", "not_json"}

\* `if not email_address or not history_id`
missing_fields(payload) ==
    /\ payload.data = "object"
    /\ \/ payload.emailAddress \in {"absent", "empty"}
       \/ payload.historyId \in {"absent", "zero"}

\* Variant: the handler returns {"status": "ok"} without the delay call.
enqueues_nothing(payload) == FALSE

\* Lines 127-134 are reached: process_gmail_notification.delay is called.
enqueues(payload) ==
    /\ payload.data = "object"
    /\ payload.emailAddress = "str"
    /\ payload.historyId \in {"int", "str"}

\* The response of gmail_webhook, in the order of its statements.
webhook_response(req, env) ==
    LET payload == req.payload
    IN  IF verification_rejects(req.auth, env)
        THEN [status |-> 403, detail |-> "Invalid Pub/Sub token"]
        ELSE IF payload.body \in {"not_json", "array"} \/ payload.message = "not_object"
        THEN [status |-> 500, detail |-> "Internal Server Error"]
        ELSE IF empty_message(payload) THEN [status |-> 200, detail |-> "empty message"]
        ELSE IF invalid_data(payload) THEN [status |-> 200, detail |-> "invalid data"]
        ELSE IF handler_raises(payload) /\ ~ missing_fields(payload)
        THEN [status |-> 500, detail |-> "Internal Server Error"]
        ELSE IF missing_fields(payload) THEN [status |-> 200, detail |-> "missing fields"]
        ELSE [status |-> 200, detail |-> ""]

\* The number of the next delivery to be enqueued (1 when the deliveries
\* explored are used up).
NextIdleJob ==
    IF \E j \in Jobs : NextDelivery(j) THEN CHOOSE j \in Jobs : NextDelivery(j) ELSE 1

\* POST /gmail/webhook.  On the last path the handler calls
\* process_gmail_notification.delay(email_address, str(history_id)) and
\* returns; task_id is the number of the delivery it enqueued.
WebhookRequest(j, req) ==
    /\ req.payload.h <= head
    /\ LET response == webhook_response(req, app_env)
           delay == response.status = 200 /\ response.detail = "" /\ enqueues(req.payload)
       IN  /\ delay => NextDelivery(j)
           /\ job' = IF delay
                     THEN [job EXCEPT ![j] = Message("queued", req.payload.h, 0)]
                     ELSE job
           /\ http' = [answered |-> TRUE, request |-> req, status |-> response.status,
                       detail |-> response.detail, task_id |-> IF delay THEN j ELSE None]
    /\ UNCHANGED <<head, last_history_id, processed_messages, alerts, notify_queue,
                   targetVars, notifyVars, retryVars, dispatch, redis_channel, app_env,
                   extra_rule, liveVars>>

\* ------------------------------------------------------------ specifications
NoJobRunning == \A k \in Jobs : job[k].pc \notin Running

\* The worker pool of the deployment: Workers Sync jobs at a time, any
\* execution may raise.
Next ==
    \/ ProviderAddsMessage
    \/ \E j \in Jobs, h \in HistoryIds : gmail_webhook(j, h)
    \/ \E j \in Jobs : poll_gmail_fallback(j)
    \/ \E j \in Jobs : ProcessStart(j)
    \/ \E j \in Jobs : GetHistoryPage(j)
    \/ \E j \in Jobs, m \in HistoryIds : ProcessInsert(j, m)
    \/ \E j \in Jobs : MatchAndCommit(j)
    \/ \E j \in Jobs : UpdateLastHistoryId(j)
    \/ \E j \in Jobs, k \in 0..Len(RulesTable) : TaskFail(j, k)

Spec == Init /\ [][Next]_vars

\* Sync jobs processed one at a time (a pool of one worker).
NextSeq ==
    \/ ProviderAddsMessage
    \/ \E j \in Jobs, h \in HistoryIds : gmail_webhook(j, h)
    \/ \E j \in Jobs : poll_gmail_fallback(j)
    \/ \E j \in Jobs : NoJobRunning /\ ProcessStart(j)
    \/ \E j \in Jobs : GetHistoryPage(j)
    \/ \E j \in Jobs, m \in HistoryIds : ProcessInsert(j, m)
    \/ \E j \in Jobs : MatchAndCommit(j)
    \/ \E j \in Jobs : UpdateLastHistoryId(j)
    \/ \E j \in Jobs, k \in 0..Len(RulesTable) : TaskFail(j, k)

SpecSeq == Init /\ [][NextSeq]_vars

\* Concurrent Sync jobs in which no call raises: every interleaving of the
\* steps of the jobs.
NextRace ==
    \/ ProviderAddsMessage
    \/ \E j \in Jobs, h \in HistoryIds : gmail_webhook(j, h)
    \/ \E j \in Jobs : poll_gmail_fallback(j)
    \/ \E j \in Jobs : ProcessStart(j)
    \/ \E j \in Jobs : GetHistoryPage(j)
    \/ \E j \in Jobs, m \in HistoryIds : ProcessInsert(j, m)
    \/ \E j \in Jobs : MatchAndCommit(j)
    \/ \E j \in Jobs : UpdateLastHistoryId(j)

SpecRace == Init /\ [][NextRace]_vars

\* The delivery targets a user can have registered.
DeviceRows == {[platform |-> "ios", token |-> "t1"], [platform |-> "android", token |-> "t2"]}
SlackRows ==
    {NoSlackConfig}
    \cup [exists : {TRUE}, is_enabled : BOOLEAN,
          enabled_notification_types : {{}, {"RULE_MATCH"}, {"SYSTEM"}}]

InitNotify ==
    /\ InitSync
    /\ device_tokens \in SUBSET DeviceRows
    /\ slack_config \in SlackRows
    /\ InitEdge

\* Sync jobs one at a time, and the Notify jobs they enqueue.
NextNotify ==
    \/ ProviderAddsMessage
    \/ \E j \in Jobs, h \in HistoryIds : gmail_webhook(j, h)
    \/ \E j \in Jobs : poll_gmail_fallback(j)
    \/ \E j \in Jobs : NoJobRunning /\ ProcessStart(j)
    \/ \E j \in Jobs : GetHistoryPage(j)
    \/ \E j \in Jobs, m \in HistoryIds : ProcessInsert(j, m)
    \/ \E j \in Jobs : MatchAndCommit(j)
    \/ \E j \in Jobs : UpdateLastHistoryId(j)
    \/ \E n \in BagToSet(notify_queue) : send_push_for_alert(n)

SpecNotify == InitNotify /\ [][NextNotify]_vars

\* Calls of the dispatcher for every set of delivery targets.
NextDispatch == NotifyCall

SpecDispatch == InitNotify /\ [][NextDispatch]_vars

\* Events of every type tag, dispatched for a user with one device at most
\* and any chat webhook row.
ChatRows ==
    {NoSlackConfig}
    \cup [exists : {TRUE}, is_enabled : BOOLEAN,
          enabled_notification_types : {{}, {"DIGEST"}, {"RULE_MATCH", "DIGEST"}}]

InitEvents ==
    /\ InitSync
    /\ device_tokens \in SUBSET {[platform |-> "ios", token |-> "t1"]}
    /\ slack_config \in ChatRows
    /\ InitEdge

NextEvents == NotifyEvent

SpecEvents == InitEvents /\ [][NextEvents]_vars

\* The API workers: WebSockets connect and go away, alerts are published,
\* and each listener forwards what it reads, in any interleaving of the
\* awaits.
NextWs ==
    \/ \E ws \in Sessions : Connect(ws, WorkerOf(ws))
    \/ \E ws \in Sessions : Disconnect(ws)
    \/ \E user_id \in Users : Publish(user_id)
    \/ \E w \in WsWorkers : Listen(w)
    \/ \E w \in WsWorkers, ok \in BOOLEAN : SendJson(w, ok)
    \/ \E w \in WsWorkers : ForwardReturns(w)

SpecWs == Init /\ [][NextWs]_vars

\* The webhook receiver in every environment, with the mailbox growing.
InitWebhook ==
    /\ InitSync
    /\ device_tokens = {}
    /\ slack_config = NoSlackConfig
    /\ InitRetry
    /\ dispatch = NoDispatch
    /\ redis_channel = {}
    /\ app_env \in AppEnvs
    /\ http = NoExchange
    /\ extra_rule = NoExtraRule
    /\ InitLive

NextWebhook ==
    \/ ProviderAddsMessage
    \/ \E req \in Requests : WebhookRequest(NextIdleJob, req)

SpecWebhook == InitWebhook /\ [][NextWebhook]_vars

\* One Sync delivery and the Notify jobs it enqueues, where any execution of
\* either task may raise, any number of times (in the Sync job: a provider
\* call, the insert, a flush or a commit).
NextRetry ==
    \/ ProviderAddsMessage
    \/ \E h \in HistoryIds : gmail_webhook(1, h)
    \/ ProcessStart(1)
    \/ GetHistoryPage(1)
    \/ \E m \in HistoryIds : ProcessInsert(1, m)
    \/ MatchAndCommit(1)
    \/ UpdateLastHistoryId(1)
    \/ Raises(1, 0)
    \/ \E n \in BagToSet(notify_queue) : send_push_for_alert(n)
    \/ \E n \in BagToSet(notify_queue) : NotifyFail(n)

\* A user who has registered no device: a Notify job returns after the
\* device query.
InitNoDevice ==
    /\ InitSync
    /\ device_tokens = {}
    /\ slack_config = NoSlackConfig
    /\ InitEdge

SpecRetry == InitNoDevice /\ [][NextRetry]_vars

\* Sync jobs one at a time for a user who has stored one more rule, with a
\* malformed condition; no call fails.
InitRules ==
    /\ InitSync
    /\ device_tokens = {[platform |-> "ios", token |-> "t1"]}
    /\ slack_config = NoSlackConfig
    /\ InitRetry
    /\ dispatch = NoDispatch
    /\ redis_channel = {}
    /\ app_env = "production"
    /\ http = NoExchange
    /\ extra_rule \in MalformedRules
    /\ InitLive

\* The same for a user whose extra rule is one of LoopRules.
InitEmptyRule ==
    /\ InitSync
    /\ device_tokens = {[platform |-> "ios", token |-> "t1"]}
    /\ slack_config = NoSlackConfig
    /\ InitRetry
    /\ dispatch = NoDispatch
    /\ redis_channel = {}
    /\ app_env = "production"
    /\ http = NoExchange
    /\ extra_rule \in LoopRules
    /\ InitLive

NextRules ==
    \/ ProviderAddsMessage
    \/ \E j \in Jobs, h \in HistoryIds : gmail_webhook(j, h)
    \/ \E j \in Jobs : poll_gmail_fallback(j)
    \/ \E j \in Jobs : NoJobRunning /\ ProcessStart(j)
    \/ \E j \in Jobs : GetHistoryPage(j)
    \/ \E j \in Jobs, m \in HistoryIds : ProcessInsert(j, m)
    \/ \E j \in Jobs : MatchStoredRules(j)
    \/ \E j \in Jobs : UpdateLastHistoryId(j)

SpecRules == InitRules /\ [][NextRules]_vars

SpecEmptyRule == InitEmptyRule /\ [][NextRules]_vars

\* The rules engine called on its own, once, with arguments of the fixtures.
InitEval ==
    /\ InitSync
    /\ device_tokens = {}
    /\ slack_config = NoSlackConfig
    /\ InitRetry
    /\ dispatch = NoDispatch
    /\ redis_channel = {}
    /\ app_env = "production"
    /\ http = NoExchange
    /\ extra_rule = NoExtraRule
    /\ InitWs
    /\ \/ EvaluateRuleArgs
       \/ TimeWindowArgs
       \/ MatchRulesArgs

NextEval ==
    \/ EvaluateRuleCall
    \/ TimeWindowCall
    \/ MatchRulesCall

SpecEval == InitEval /\ [][NextEval]_vars

\* ===================================================================== claims
RowsOf(m) == CountRows(processed_messages, m)

\* The jobs whose open transaction holds an inserted row for message m.
Holders(m) ==
    {j \in Jobs : \E row \in BagToSet(job[j].txn.rows) : row.message_id = m}

\* C1: whatever executions (redeliveries, fallback polls, retries) meet message
\* m, processed_messages never has two rows for m, has exactly one once an
\* execution is through with m, and the Alerts for m are those of the one
\* execution that inserted the row, one per rule.
IdempotentIngestion ==
    \A m \in HistoryIds :
        /\ RowsOf(m) <= 1
        /\ \A j \in Jobs :
              (job[j].pc = "loop" /\ m \in job[j].all_history \ job[j].new_message_ids)
                  => RowsOf(m) = 1
        /\ \A a \in BagToSet(alerts) :
              a.message_id = m =>
                  /\ CopiesIn(a, alerts) = 1
                  /\ \E row \in BagToSet(processed_messages) :
                        row.message_id = m /\ row.id = a.id

\* C1 witness: a job is through with a message that another job had inserted
\* and alerted on.
RedeliverySkipped ==
    \E j \in Jobs, m \in HistoryIds :
        /\ job[j].pc = "loop"
        /\ m \in job[j].all_history \ job[j].new_message_ids
        /\ \E row \in BagToSet(processed_messages) : row.message_id = m /\ row.id # j
        /\ \E a \in BagToSet(alerts) : a.message_id = m

\* C2 (as claimed): at most one Notify job is ever enqueued per message and
\* matching rule.
NoDoubleNotify ==
    \A n \in BagToSet(notify_queue) : CopiesIn(n, notify_queue) <= 1

\* C3: when concurrent jobs reach the insert for the same message, at most one
\* of them holds an accepted insert, and the Alerts and the Notify jobs for
\* the message are made once, by that job.
ConcurrentInsertExclusive ==
    \A m \in HistoryIds :
        /\ Cardinality(Holders(m)) + RowsOf(m) <= 1
        /\ \A n \in BagToSet(notify_queue) :
              n.message_id = m => CopiesIn(n, notify_queue) = 1
        /\ \A a \in BagToSet(alerts) :
              a.message_id = m =>
                  /\ CopiesIn(a, alerts) = 1
                  /\ \A row \in BagToSet(processed_messages) :
                        row.message_id = m => row.id = a.id

\* C3 witness: two jobs running at the same time are both through with the
\* same message of their batches; one inserted it, the other skipped it.
BothReachedInsert ==
    \E j \in Jobs, k \in Jobs, m \in HistoryIds :
        /\ j # k
        /\ job[j].pc = "loop" /\ job[k].pc = "loop"
        /\ m \in job[j].all_history \ job[j].new_message_ids
        /\ m \in job[k].all_history \ job[k].new_message_ids
        /\ \E row \in BagToSet(processed_messages) : row.message_id = m /\ row.id = j
        /\ \E n \in BagToSet(notify_queue) : n.message_id = m

\* Job j takes the step that ends its run successfully (lines 130-132).
Completes(j) == job[j].pc = "loop" /\ job'[j].pc = "done"

\* Job j takes the step that ends its run with an exception.
Aborts(j) == job[j].pc \in Running /\ job'[j].pc \in {"queued", "failed"}

HasRow(table, m) == \E row \in BagToSet(table) : row.message_id = m

Max(S) == CHOOSE x \in S : \A y \in S : y <= x

\* C4 (as claimed): with Sync jobs processed one at a time, the stored cursor
\* never moves backward.
CursorNeverMovesBackward ==
    [][last_history_id # None => last_history_id' >= last_history_id]_vars

\* C5 (as claimed): a Sync job that completes leaves the stored cursor equal
\* to the latest historyId of the records of the batch it paged.
CursorEqualsLatestObserved ==
    [][\A j \in Jobs :
          (Completes(j) /\ job[j].all_history # {})
              => last_history_id' = Max(job[j].all_history)]_vars

\* C6: the step in which a Sync job aborts leaves the stored cursor as it is,
\* and the stored cursor changes in no step other than the one that completes
\* a job, so an execution that aborts has not written it.
AbortLeavesCursor ==
    [][/\ \A j \in Jobs : Aborts(j) => last_history_id' = last_history_id
       /\ last_history_id' # last_history_id =>
             \E j \in Jobs : Completes(j) /\ job[j].new_message_ids = {}]_vars

\* C6 witness: the first execution of a job committed a message of its batch
\* and then aborted; no cursor is stored.
AbortedAfterPartialBatch ==
    \E j \in Jobs :
        /\ job[j].pc = "queued" /\ job[j].retries = 1
        /\ \E row \in BagToSet(processed_messages) : row.id = j
        /\ last_history_id = None

\* C7: when a Sync job's cursor write is committed, every message of the
\* batch the job paged has a committed processed_messages row.
CursorBatchPersisted ==
    [][\A j \in Jobs :
          Completes(j) => \A m \in job[j].all_history : HasRow(processed_messages', m)]_vars

\* C7 witness: a job that inserted a message has completed and its cursor
\* write is the stored cursor.
CursorWrittenAfterBatch ==
    \E j \in Jobs :
        /\ job[j].pc = "done"
        /\ last_history_id = job[j].history_id
        /\ \E row \in BagToSet(processed_messages) : row.id = j

\* C8 (as claimed): no Sync job makes later jobs skip a message: when the
\* stored cursor moves forward, every message between the old and the new
\* cursor is recorded in processed_messages.
NoMessageSkipped ==
    [][(last_history_id # None /\ last_history_id' > last_history_id)
          => \A m \in (last_history_id + 1)..last_history_id' :
                 HasRow(processed_messages', m)]_vars

\* C9 (as claimed): the job that commits last determines the stored cursor.
LastCommitDetermines ==
    [][\A j \in Jobs : Completes(j) => last_history_id' = job[j].history_id]_vars

\* C9 (amended): the cursor write compares nothing with the stored value: a
\* completing job stores its own history_id, except that a job whose
\* history_id equals the value its session loaded writes nothing.
LastWriteWins ==
    [][\A j \in Jobs :
          Completes(j) =>
              last_history_id' = IF job[j].loaded = job[j].history_id
                                 THEN last_history_id ELSE job[j].history_id]_vars

\* C9 witness: jobs j and k have both completed, the stored cursor is the
\* history_id of k and earlier than that of j, and k inserted a message at or
\* before the history_id of j: k paged before j stored its cursor and wrote
\* after it.
RegressUnderInterleaving ==
    \E j \in Jobs, k \in Jobs :
        /\ j # k
        /\ job[j].pc = "done" /\ job[k].pc = "done"
        /\ last_history_id = job[k].history_id
        /\ job[k].history_id < job[j].history_id
        /\ \E row \in BagToSet(processed_messages) :
              row.id = k /\ row.message_id <= job[j].history_id

\* The chat webhook applies to a RULE_MATCH event: configured, enabled, and
\* the allow-list is empty or has the type.
ChatWebhookApplies ==
    /\ slack_config.exists /\ slack_config.is_enabled
    /\ \/ slack_config.enabled_notification_types = {}
       \/ RULE_MATCH \in slack_config.enabled_notification_types

\* C10 (as claimed): a Notify job that has run attempted every push target of
\* the user and, when the chat webhook applies, the chat webhook.
NotifyAttemptsAllTargets ==
    \A n \in BagToSet(notify_done) :
        /\ \A device \in device_tokens : <<n, device>> \in push_sent
        /\ ChatWebhookApplies => n \in slack_sent

\* C11: a notify call for two push targets, in which the send to one raises in
\* the integration and the send to the other is delivered, returns
\* push_sent = 1 and push_failed = 1, and the chat webhook is attempted when
\* it is configured, enabled and allows the type.
PartialFailureIsolated ==
    (/\ dispatch.called
     /\ \E d1 \in device_tokens, d2 \in device_tokens :
           /\ device_tokens = {d1, d2} /\ d1 # d2
           /\ dispatch.outcome[d1] = "raises"
           /\ dispatch.outcome[d2] = "delivered")
        => /\ dispatch.result.returned
           /\ dispatch.result.push_sent = 1
           /\ dispatch.result.push_failed = 1
           /\ ChatWebhookAppliesTo(slack_config, dispatch.notification_type)
                 => /\ dispatch.result.slack_attempted
                    /\ dispatch.result.slack_sent # "None"

\* C11 witness: the APNs send raised, the FCM send was delivered, and the
\* chat webhook, which applies, was posted to.
OneRaisedOneDelivered ==
    /\ dispatch.called
    /\ Cardinality(device_tokens) = 2
    /\ \E d1 \in device_tokens, d2 \in device_tokens :
          /\ d1.platform = "ios" /\ dispatch.outcome[d1] = "raises"
          /\ d2.platform = "android" /\ dispatch.outcome[d2] = "delivered"
    /\ ChatWebhookAppliesTo(slack_config, dispatch.notification_type)
    /\ dispatch.result.push_sent = 1 /\ dispatch.result.push_failed = 1
    /\ dispatch.result.slack_sent = PyTrue

\* C12: when the chat webhook applies and decrypting raises or the POST fails
\* with an exception, notify returns, slack_sent is False, and the push
\* counters are those of the push loop.
ChatFailureContained ==
    (/\ dispatch.called
     /\ ChatWebhookAppliesTo(slack_config, dispatch.notification_type)
     /\ \/ dispatch.decrypt = "raises"
        \/ dispatch.endpoint \in {"timeout", "raises"})
        => /\ dispatch.result.returned
           /\ dispatch.result.slack_sent = PyFalse
           /\ dispatch.result.push_sent =
                 Cardinality({d \in device_tokens : dispatch.outcome[d] = "delivered"})
           /\ dispatch.result.push_sent + dispatch.result.push_failed =
                 Cardinality(device_tokens)

\* C12 witness: decrypt raised after one push was delivered; the call
\* returned with slack_sent False and push_sent 1.
DecryptRaisedAfterPush ==
    /\ dispatch.called
    /\ ChatWebhookAppliesTo(slack_config, dispatch.notification_type)
    /\ dispatch.decrypt = "raises"
    /\ \E d \in device_tokens : dispatch.outcome[d] = "delivered"
    /\ dispatch.result.returned
    /\ dispatch.result.slack_sent = PyFalse
    /\ dispatch.result.push_sent >= 1

\* C13 (as claimed): a Notify job in which a push send failed because the
\* push service raised (an outage, a timeout) does not complete as a success:
\* it is left to be executed again.
PushOutageRetried ==
    [][\A n \in BagToSet(notify_queue) :
          CopiesIn(n, notify_done') > CopiesIn(n, notify_done)
              => \A failed \in push_failed' : failed[2] # "raises"]_vars

\* C14 (as claimed): for every Alert the Sync engine has committed, an
\* envelope for that Alert is on the broadcast channel.
AlertPublished ==
    \A a \in BagToSet(alerts) :
        \E envelope \in redis_channel :
            /\ envelope.payload.message_id = a.message_id
            /\ envelope.payload.rule_id = a.rule_id

\* A payload with a string emailAddress and a historyId.
ValidPayload(payload) ==
    /\ payload.body = "object" /\ payload.message = "object" /\ payload.data = "object"
    /\ payload.emailAddress = "str"
    /\ payload.historyId \in {"int", "str"}

\* A payload that is empty, is not decodable base64/JSON, or decodes to JSON
\* without the emailAddress or the historyId.
MalformedPayload(payload) ==
    /\ payload.body = "object"
    /\ \/ payload.message = "absent"
       \/ payload.message = "object" /\ payload.data # "object"
       \/ /\ payload.data = "object"
          /\ \/ payload.emailAddress \in {"absent", "empty"}
             \/ payload.historyId \in {"absent", "zero"}

\* C15: in production a request that fails verification is answered 403 and
\* the exchange changes nothing else: no Sync job is enqueued, whatever the
\* payload.
UnverifiedRejectedInProduction ==
    [][(/\ http' # http
        /\ app_env = "production"
        /\ ~ verify_pubsub_token(http'.request.auth))
          => /\ http'.status = 403
             /\ http'.task_id = None
             /\ job' = job
             /\ notify_queue' = notify_queue
             /\ last_history_id' = last_history_id]_vars

\* C15 witness: a forged request with a valid payload was answered 403 in
\* production and no job exists.
ForgedValidPayloadRejected ==
    /\ http.answered
    /\ app_env = "production"
    /\ http.request.auth = "forged_jwt"
    /\ ValidPayload(http.request.payload)
    /\ http.status = 403
    /\ \A j \in Jobs : job[j].pc = "idle"

MalformedAcknowledged ==
    (/\ http.answered
     /\ verify_pubsub_token(http.request.auth) \/ app_env # "production"
     /\ MalformedPayload(http.request.payload))
        => http.status = 200 /\ http.task_id = None

\* C18 (as claimed): every response is 200, except the 403 of a request that
\* fails verification in production.
OnlyOkOrForbidden ==
    http.answered =>
        \/ http.status = 200
        \/ /\ http.status = 403
           /\ app_env = "production"
           /\ ~ verify_pubsub_token(http.request.auth)

\* C19: an execution of a Sync job that raises is followed by a retry, with a
\* backoff countdown of at most retry_backoff_max, while fewer than
\* max_retries retries were made, and by the permanent failure of the job
\* otherwise; a failed job never runs again; the same count bounds the
\* retries of a Notify job.
RetriesBounded ==
    [][/\ \A j \in Jobs :
             /\ job'[j].retries <= max_retries
             /\ (Aborts(j) /\ job[j].retries < max_retries)
                   => /\ job'[j].pc = "queued"
                      /\ job'[j].retries = job[j].retries + 1
                      /\ job'[j].countdown <= retry_backoff_max
             /\ (Aborts(j) /\ job[j].retries = max_retries) => job'[j].pc = "failed"
             /\ job[j].pc = "failed" => job'[j] = job[j]
       /\ \A n \in BagToSet(notify_queue') :
             /\ CopiesIn(n, notify_retries') <= notify_max_retries
             /\ CopiesIn(n, notify_failed') >= CopiesIn(n, notify_failed)
             /\ CopiesIn(n, notify_failed') > CopiesIn(n, notify_failed)
                   => CopiesIn(n, notify_retries) = notify_max_retries]_vars

\* C19 witness: the Sync job raised in its first execution and in each of its
\* three retries and is failed, and a Notify job it had enqueued has failed
\* in the same way.
FailedAfterThreeRetries ==
    /\ \E j \in Jobs : job[j].pc = "failed" /\ job[j].retries = max_retries
    /\ notify_failed # EmptyBag

\* C20 (as claimed): with a malformed condition stored in a rule and no call
\* failing, no execution of a Sync job ends with an exception: the condition
\* evaluates to false and the batch goes on.
MalformedRuleNeverAborts ==
    [][\A j \in Jobs : ~ Aborts(j)]_vars

\* C21: a rule with an empty condition list evaluates to false for every
\* message, whether its logic is AND, OR or missing, so that no Alert row and
\* no Notify job ever exists for it.
EmptyRuleNeverMatches ==
    (extra_rule.is_active /\ extra_rule.conditions.conditions = <<>>) =>
        /\ \A m \in HistoryIds : ~ evaluate_rule(extra_rule.conditions, ParsedMessage(m))
        /\ \A a \in BagToSet(alerts) : a.rule_id # extra_rule.id
        /\ \A n \in BagToSet(notify_queue) : n.rule_id # extra_rule.id

\* C21 witness: the rule loop has run, with the rule without conditions among
\* its rules, on a message that a rule before it matched.
EmptyRuleInRuleLoop ==
    /\ extra_rule.is_active
    /\ extra_rule.conditions.conditions = <<>>
    /\ extra_rule.conditions.logic = Absent
    /\ \E a \in BagToSet(alerts) : a.rule_id = "r1"

\* The outcomes of the conditions of the last evaluate_rule call, one by one.
Outcomes ==
    [i \in 1..Len(eval.conds) |->
        match_condition(CondPool[eval.conds[i]], ParsedMessage(eval.message))]

\* C22: for a non-empty condition list, evaluate_rule is true under AND
\* exactly when every condition is true, and under OR exactly when at least
\* one is, whatever the outcomes of the conditions.
LogicCombination ==
    (eval.op = "evaluate_rule" /\ eval.pc = "returned" /\ Len(eval.conds) > 0) =>
        /\ eval.logic = "AND" => (eval.result <=> \A i \in 1..Len(eval.conds) : Outcomes[i])
        /\ eval.logic = "OR" => (eval.result <=> \E i \in 1..Len(eval.conds) : Outcomes[i])

\* C22 witness: evaluate_rule has returned false under AND for conditions of
\* which the first is true and the second false.
AndWithOneFalse ==
    /\ eval.op = "evaluate_rule"
    /\ eval.pc = "returned"
    /\ eval.logic = "AND"
    /\ Len(eval.conds) = 2
    /\ Outcomes[1] /\ ~ Outcomes[2]
    /\ ~ eval.result

\* The positions of the rule list of the last match_rules call whose rule is
\* true for the message, and the k-th smallest of them.
MatchingPositions ==
    {i \in 1..Len(eval.rules) :
        evaluate_rule(RulePool[eval.rules[i]].conditions, ParsedMessage(eval.message))}

KthMatching(k) ==
    CHOOSE i \in MatchingPositions : Cardinality({j \in MatchingPositions : j <= i}) = k

\* C23: match_rules returns the rules of its input whose conditions are true
\* for the message, each once per occurrence in the input and in input order.
MatchRulesOrderedSubset ==
    (eval.op = "match_rules" /\ eval.pc = "returned") =>
        /\ Len(eval.matched) = Cardinality(MatchingPositions)
        /\ \A k \in 1..Len(eval.matched) :
              eval.matched[k] = RulePool[eval.rules[KthMatching(k)]]

\* C23 witness: of three rules the first and the third matched, the second
\* did not, and two rules were returned.
FirstAndThirdMatched ==
    /\ eval.op = "match_rules"
    /\ eval.pc = "returned"
    /\ Len(eval.rules) = 3
    /\ MatchingPositions = {1, 3}
    /\ eval.rules[1] # eval.rules[3]
    /\ Len(eval.matched) = 2

\* The local time of day of the message of the last time_window call.
LocalMinutes ==
    (eval.received_at + (IF eval.timezone = "Asia/Tokyo" THEN 9 * 60 ELSE 0)) % (24 * 60)

\* C24: a window with start > end is true exactly when the local time of day
\* is at or after start or at or before end; one with start <= end exactly
\* when it lies between them.  The window 22:00-06:00 matches 23:00 and
\* 05:00 and does not match 12:00.
TimeWindowWraps ==
    (eval.op = "time_window" /\ eval.pc = "returned") =>
        /\ eval.start > eval.end =>
              (eval.result <=> (LocalMinutes >= eval.start \/ LocalMinutes <= eval.end))
        /\ eval.start <= eval.end =>
              (eval.result <=> (eval.start <= LocalMinutes /\ LocalMinutes <= eval.end))
        /\ (eval.start = 22 * 60 /\ eval.end = 6 * 60 /\ eval.timezone = "UTC") =>
              /\ eval.received_at = 1440 + 23 * 60 => eval.result
              /\ eval.received_at = 1440 + 5 * 60 => eval.result
              /\ eval.received_at = 1440 + 12 * 60 => ~ eval.result

\* C24 witness: the window 22:00-06:00 has matched a message received at
\* 23:00 local time.
OvernightWindowMatched ==
    /\ eval.op = "time_window"
    /\ eval.pc = "returned"
    /\ eval.start = 22 * 60 /\ eval.end = 6 * 60
    /\ LocalMinutes = 23 * 60
    /\ eval.result

\* C25: when notify has returned, every push target of the user has been sent
\* to exactly once, whatever the other sends did, and push_sent + push_failed
\* is the number of targets.
EveryTargetAttemptedOnce ==
    (dispatch.called /\ dispatch.result.returned) =>
        /\ dispatch.result.push_sent + dispatch.result.push_failed = Cardinality(device_tokens)
        /\ BagToSet(dispatch.result.attempted) = device_tokens
        /\ \A device \in device_tokens : CopiesIn(device, dispatch.result.attempted) = 1
        /\ dispatch.result.push_failed =
              Cardinality({d \in device_tokens : dispatch.outcome[d] # "delivered"})

\* C25 witness: the first send of the loop was rejected and the second was
\* delivered.
RejectedThenDelivered ==
    /\ dispatch.called
    /\ dispatch.result.returned
    /\ Cardinality(device_tokens) = 2
    /\ dispatch.outcome[DeviceSeq(device_tokens)[1]] = "rejected"
    /\ dispatch.outcome[DeviceSeq(device_tokens)[2]] = "delivered"
    /\ dispatch.result.push_sent = 1
    /\ dispatch.result.push_failed = 1

\* C26 (as claimed): the chat webhook is attempted exactly when a chat config
\* exists, is enabled, and its allow-list is empty or holds the type tag of
\* the event; the chat result is None when it is not attempted and True or
\* False when it is.  The allow-list {"DIGEST"} suppresses a RULE_MATCH event
\* and allows a DIGEST event.
ChatFilteredByType ==
    dispatch.called =>
        LET applies ==
                /\ slack_config.exists
                /\ slack_config.is_enabled
                /\ \/ slack_config.enabled_notification_types = {}
                   \/ dispatch.notification_type \in slack_config.enabled_notification_types
        IN  /\ dispatch.result.slack_attempted <=> applies
            /\ ~ applies => dispatch.result.slack_sent = "None"
            /\ applies => dispatch.result.slack_sent \in {PyTrue, PyFalse}

\* The _send_to_user call of worker w returns in this step.
Returns(w) == forward[w].pc = "sending" /\ forward'[w].pc = "done"

Range(seq) == {seq[i] : i \in 1..Len(seq)}

NoEmptyList ==
    \A w \in WsWorkers : \A u \in DOMAIN connections[w] : connections[w][u] # <<>>

NotifyRefersToCommittedAlert ==
    \A n \in BagToSet(notify_queue) :
        \E a \in BagToSet(alerts) :
            a.message_id = n.message_id /\ a.rule_id = n.rule_id

\* C30 (as claimed): when a forward returns during which a WebSocket of the
\* user was removed from the list, every other WebSocket of the user that
\* was connected from the start and is still registered has got the payload
\* exactly once.
ForwardSurvivesListMutation ==
    [][\A w \in WsWorkers : (Returns(w) /\ forward[w].removed) =>
          \A ws \in Range(forward[w].start) :
              InList(ws_list_of(connections'[w], forward[w].user_id), ws)
                  => CopiesIn(<<forward[w].payload.alert_id, ws>>, sent_json') = 1]_vars

====
